---- MODULE Spec2Model ----
(***************************************************************************)
(* Model of feature_mining/parse_and_model.py:                             *)
(*   format_feature_list, read_annotated_data, build_explicit_models.      *)
(*                                                                         *)
(* Text is modelled as a sequence of lexical atoms.  An atom is either one *)
(* of the markers the parser looks for ("[t]", "*", "##", ",", "[u]",      *)
(* "[@]"), a whitespace character (" ", "\n") or a letter ("a", "B", "b"). *)
(* The Python string operations used by the code (in, startswith, split,   *)
(* strip, lower) are defined on such sequences.                            *)
(***************************************************************************)
EXTENDS Integers, Sequences, FiniteSets, TLC

VARIABLES
    call,                    \* which function of the module is being run
    pc,                      \* position inside that function
    \* ---- format_feature_list
    fl_input,                \* the feature_list argument
    feature_index,
    feature_term_index,
    formatted_feature_list,
    \* ---- read_annotated_data
    nlines,                  \* None or <<n>>
    file_len,                \* number of lines of the input file
    input_file,              \* the lines read from the file so far
    doc_id,
    section_id,
    section_list,
    feature_section_mapping,
    feature_list,
    \* ---- build_explicit_models
    text_len,                \* number of rows of text_set
    text_set,                \* the rows of text_set iterated so far
    feature_set,
    section_word_list,
    section_word_counts,
    collection_word_counts,
    word_section_counter,
    feature_word_counter,
    explicit_section_mapping, \* the function's local feature_section_mapping
    model_background,
    model_feature

vars == <<call, pc, fl_input, feature_index, feature_term_index,
          formatted_feature_list, nlines, file_len, input_file, doc_id,
          section_id, section_list, feature_section_mapping, feature_list,
          text_len, text_set, feature_set, section_word_list, section_word_counts,
          collection_word_counts, word_section_counter, feature_word_counter,
          explicit_section_mapping, model_background, model_feature>>

buildVars == <<text_len, text_set, feature_set, section_word_list, section_word_counts,
               collection_word_counts, word_section_counter, feature_word_counter,
               explicit_section_mapping, model_background, model_feature>>

formatVars == <<fl_input, feature_index, feature_term_index, formatted_feature_list>>

readVars == <<nlines, file_len, input_file, doc_id, section_id, section_list,
              feature_section_mapping, feature_list>>

(***************************************************************************)
(* Bounds of the model.                                                    *)
(***************************************************************************)
MaxLines == 3         \* lines in an input file
MaxNlines == 3        \* largest nlines argument tried
MaxFeatures == 3      \* top-level entries of a feature list
MaxSections == 3      \* rows of text_set
FracBits == 10        \* binary digits kept after the point by Log2

None == <<>>

Min(a, b) == IF a <= b THEN a ELSE b

(***************************************************************************)
(* Python string operations on sequences of atoms.                         *)
(***************************************************************************)
Whitespace == {" ", "\n"}

\* sub in s, for a one-atom marker
Contains(s, sub) == \E i \in 1..Len(s) : s[i] = sub

\* s.startswith(sub)
StartsWith(s, sub) == Len(s) > 0 /\ s[1] = sub

\* index of the first occurrence of sub in s (s contains sub)
FirstIndex(s, sub) == CHOOSE i \in 1..Len(s) :
                          s[i] = sub /\ \A j \in 1..(i - 1) : s[j] # sub

\* s.split(sep): the pieces between the occurrences of sep
RECURSIVE Split(_, _)
Split(s, sep) ==
    IF ~Contains(s, sep) THEN <<s>>
    ELSE LET i == FirstIndex(s, sep)
         IN  <<SubSeq(s, 1, i - 1)>> \o Split(SubSeq(s, i + 1, Len(s)), sep)

\* s.strip(): leading and trailing whitespace removed
RECURSIVE LStrip(_)
LStrip(s) == IF Len(s) > 0 /\ s[1] \in Whitespace THEN LStrip(Tail(s)) ELSE s

RECURSIVE RStrip(_)
RStrip(s) == IF Len(s) > 0 /\ s[Len(s)] \in Whitespace
             THEN RStrip(SubSeq(s, 1, Len(s) - 1)) ELSE s

Strip(s) == RStrip(LStrip(s))

\* s.lower(): the only upper-case atom is "B"
LowerAtom(c) == IF c = "B" THEN "b" ELSE c

Lower(s) == [i \in 1..Len(s) |-> LowerAtom(s[i])]

(***************************************************************************)
(* read_annotated_data: the body of the loop over the lines of the file.   *)
(***************************************************************************)
\* lines 98, 104: the line starts a new document
IsTitle(line) == Contains(line, "[t]") \/ StartsWith(line, "*")

\* line 112 raises IndexError when a body line holds no "##"
Raises(line) == ~IsTitle(line) /\ Len(Split(line, "##")) < 2

\* lines 98-112: the cleaned text of the line
LineText(line) ==
    IF Contains(line, "[t]") THEN Lower(Strip(Split(line, "[t]")[2]))
    ELSE IF StartsWith(line, "*") THEN Lower(Strip(Split(line, "*")[2]))
    ELSE Lower(Strip(Split(line, "##")[2]))

\* lines 99, 105: doc_id after the line
NextDocId_OnlyT(d, line) == IF Contains(line, "[t]") THEN d + 1 ELSE d

NextDocId(d, line) == IF IsTitle(line) THEN d + 1 ELSE d

\* line 115
FeatureString(line) == Split(Split(line, "##")[1], ",")

\* line 117
HasAnnotation(line) == ~IsTitle(line) /\ FeatureString(line)[1] # <<>>

\* lines 124-131: one annotation entry
ExplicitFeature_Inverted(feature) == Contains(feature, "[u]")

ExplicitFeature(feature) == ~Contains(feature, "[u]")

FeatureText(feature) == Split(feature, "[@]")[1]

\* lines 120-135: the records appended for the line
Mentions(line, d, s) ==
    IF HasAnnotation(line)
    THEN LET fs == FeatureString(line)
         IN  [k \in 1..Len(fs) |->
                 [doc_id |-> d, section_id |-> s, feature |-> FeatureText(fs[k]),
                  is_explicit |-> ExplicitFeature(fs[k])]]
    ELSE <<>>

\* line 138: defaultdict(int) increment
Increment(fl, key) ==
    IF key \in DOMAIN fl THEN [fl EXCEPT ![key] = @ + 1] ELSE (key :> 1) @@ fl

\* lines 120-138: feature_list after the entries es have been counted
RECURSIVE CountFeatures(_, _)
CountFeatures(fl, es) ==
    IF es = <<>> THEN fl
    ELSE CountFeatures(Increment(fl, FeatureText(Head(es))), Tail(es))

NextFeatureList(fl, line) ==
    IF HasAnnotation(line) THEN CountFeatures(fl, FeatureString(line)) ELSE fl

\* lines 149-151: the loop is left after the line
LimitReached(n, s) == n # None /\ s >= n[1]

(***************************************************************************)
(* The input lines: title lines of both kinds, body lines built from an    *)
(* annotation list and a text, and a body line without "##".               *)
(***************************************************************************)
Annotations ==
    { <<>>,
      <<"a">>,
      <<"a", ",", "a">>,
      <<"a", "[@]", "B", ",", "B", "[u]">>,
      <<"B", "[u]", "[@]", "a", ",", "a", "[@]">>,
      <<",", "a">>,
      <<"a", ",">> }

BodyTexts ==
    { <<" ", "B", " ", "a">>,
      <<"a", "##", "B">> }

TitleLines ==
    { <<"[t]", " ", "B">>,
      <<"a", "[t]", "B", "[t]", "a">>,
      <<"*", "a", " ">>,
      <<"*", "B", "*", "a">>,
      <<"*", "a", "[t]", "B">> }

BodyLines == { ann \o <<"##">> \o txt : ann \in Annotations, txt \in BodyTexts }

BadLines == { <<"a", ",", "B">>, <<"a", "*">> }

Lines == { l \o <<"\n">> : l \in TitleLines \cup BodyLines \cup BadLines }

(***************************************************************************)
(* Actions of read_annotated_data.                                         *)
(***************************************************************************)
ReadInit ==
    /\ nlines \in {None} \cup { <<n>> : n \in 0..MaxNlines }
    /\ file_len \in 0..MaxLines
    /\ input_file = <<>>
    /\ doc_id = -1
    /\ section_id = 0
    /\ section_list = <<>>
    /\ feature_section_mapping = <<>>
    /\ feature_list = <<>>

ReadIdle ==
    /\ nlines = None
    /\ file_len = 0
    /\ input_file = <<>>
    /\ doc_id = -1
    /\ section_id = 0
    /\ section_list = <<>>
    /\ feature_section_mapping = <<>>
    /\ feature_list = <<>>

\* one iteration of the loop of line 93
ReadLine ==
    /\ call = "read_annotated_data"
    /\ pc = "loop"
    /\ Len(input_file) < file_len
    /\ \E line \in Lines :
         IF Raises(line)
         THEN /\ pc' = "error"
              /\ input_file' = Append(input_file, line)
              /\ UNCHANGED <<nlines, file_len, doc_id, section_id, section_list,
                             feature_section_mapping, feature_list>>
         ELSE /\ input_file' = Append(input_file, line)
              /\ doc_id' = NextDocId(doc_id, line)
              /\ feature_section_mapping' =
                     feature_section_mapping \o Mentions(line, doc_id', section_id)
              /\ feature_list' = NextFeatureList(feature_list, line)
              /\ section_list' = Append(section_list,
                     [doc_id |-> doc_id', section_id |-> section_id,
                      section_text |-> LineText(line), title |-> IsTitle(line)])
              /\ section_id' = section_id + 1
              /\ pc' = IF LimitReached(nlines, section_id') THEN "done" ELSE "loop"
              /\ UNCHANGED <<nlines, file_len>>
    /\ UNCHANGED <<call, formatVars, buildVars>>

\* the file is exhausted: lines 153-155
ReadEnd ==
    /\ call = "read_annotated_data"
    /\ pc = "loop"
    /\ Len(input_file) = file_len
    /\ pc' = "done"
    /\ UNCHANGED <<call, formatVars, readVars, buildVars>>

(***************************************************************************)
(* Properties of read_annotated_data.  The lines are judged here by the    *)
(* words of the line grammar, not by the operators of the loop body.       *)
(***************************************************************************)
\* a title line: it contains "[t]" or its first atom is "*"
GrammarTitle(line) == (\E k \in 1..Len(line) : line[k] = "[t]") \/ (line # <<>> /\ line[1] = "*")

\* the part of s before / after the first occurrence of marker m
BeforeFirst(s, m) == IF Contains(s, m) THEN SubSeq(s, 1, FirstIndex(s, m) - 1) ELSE s

AfterFirst(s, m) == IF Contains(s, m) THEN SubSeq(s, FirstIndex(s, m) + 1, Len(s)) ELSE <<>>

\* the comma-separated annotation entries of a line
GrammarEntries(line) == Split(BeforeFirst(line, "##"), ",")

\* a body line with a non-empty first annotation field
GrammarAnnotated(line) == ~GrammarTitle(line) /\ GrammarEntries(line)[1] # <<>>

\* the mention records of the section s, in order
RecordsOf(s) ==
    LET OfSection(r) == r.section_id = s
    IN  SelectSeq(feature_section_mapping, OfSection)

\* C1: the i-th section appended has section_id i (from 0), one section per
\* line read; doc_id starts at -1, grows by exactly 1 on a title line and is
\* unchanged on a body line, so no body section after a title has doc_id -1.
C1_SectionAndDocIds ==
    /\ pc # "error" => Len(section_list) = Len(input_file)
    /\ section_id = Len(section_list)
    /\ doc_id >= -1
    /\ \A i \in 1..Len(section_list) :
         LET before == IF i = 1 THEN -1 ELSE section_list[i - 1].doc_id
         IN  /\ section_list[i].section_id = i - 1
             /\ section_list[i].doc_id =
                    before + (IF GrammarTitle(input_file[i]) THEN 1 ELSE 0)
             /\ (\E j \in 1..(i - 1) : GrammarTitle(input_file[j]))
                    => section_list[i].doc_id # -1

\* a "[t]" title, a body line and a "*" title have been read, in this order
C1_Witness ==
    /\ Len(section_list) = 3
    /\ Contains(input_file[1], "[t]")
    /\ ~section_list[2].title
    /\ StartsWith(input_file[3], "*")
    /\ section_list[3].doc_id = 1

\* C3: mention records exist only for body lines with a non-empty first
\* annotation field: one per comma-separated entry, with the line's doc_id and
\* section_id, is_explicit false iff the entry contains "[u]", and the
\* feature text being the entry up to its first "[@]"; none for a title line.
C3_MentionRecords ==
    /\ \A k \in 1..Len(feature_section_mapping) :
         feature_section_mapping[k].section_id \in 0..(Len(section_list) - 1)
    /\ \A i \in 1..Len(section_list) :
         LET line == input_file[i]
             recs == RecordsOf(i - 1)
             entries == GrammarEntries(line)
         IN  IF GrammarAnnotated(line)
             THEN /\ Len(recs) = Len(entries)
                  /\ \A k \in 1..Len(recs) :
                       /\ recs[k].doc_id = section_list[i].doc_id
                       /\ recs[k].is_explicit = ~Contains(entries[k], "[u]")
                       /\ recs[k].feature = BeforeFirst(entries[k], "[@]")
             ELSE recs = <<>>

\* a title line was read, and a body line gave an explicit and an implicit
\* mention, one of them with a "[@]" suffix cut off
C3_Witness ==
    /\ \E i \in 1..Len(input_file) : GrammarTitle(input_file[i])
    /\ \E i \in 1..Len(input_file) :
         /\ Len(RecordsOf(i - 1)) = 2
         /\ RecordsOf(i - 1)[1].is_explicit
         /\ ~RecordsOf(i - 1)[2].is_explicit
         /\ Contains(GrammarEntries(input_file[i])[1], "[@]")

\* C4: the section text is the whole remainder of the line after the first
\* occurrence of its marker ("[t]", "*" or "##"), trimmed and lowercased,
\* also when the marker occurs again later in the line.
C4_WholeRemainder ==
    \A i \in 1..Len(section_list) :
        LET line == input_file[i]
            marker == IF Contains(line, "[t]") THEN "[t]"
                      ELSE IF StartsWith(line, "*") THEN "*" ELSE "##"
        IN  section_list[i].section_text = Lower(Strip(AfterFirst(line, marker)))

\* C5: with nlines given, the number of sections returned is
\* min(nlines, number of lines of the file) and never exceeds nlines.
C5_LimitRespected ==
    (call = "read_annotated_data" /\ pc = "done" /\ nlines # None)
        => /\ Len(section_list) = Min(nlines[1], file_len)
           /\ Len(section_list) <= nlines[1]

\* C6: on return, feature_list[f] is the number of sections (lines) whose
\* annotation names feature f, also when a line names f more than once.
C6_SectionsPerFeature ==
    (call = "read_annotated_data" /\ pc = "done")
        => \A f \in DOMAIN feature_list :
             feature_list[f] =
                 Cardinality({ i \in 1..Len(input_file) :
                     /\ GrammarAnnotated(input_file[i])
                     /\ \E k \in 1..Len(GrammarEntries(input_file[i])) :
                          BeforeFirst(GrammarEntries(input_file[i])[k], "[@]") = f })

(***************************************************************************)
(* format_feature_list.  A Python value of the argument is a record: a     *)
(* string [kind |-> "str", val |-> s], a list [kind |-> "list", val |->    *)
(* <<...>>] of such values, or a value of another type [kind |-> "other"]. *)
(***************************************************************************)
Str(s) == [kind |-> "str", val |-> s]

List(l) == [kind |-> "list", val |-> l]

Other == [kind |-> "other", val |-> 0]

\* lines 34, 39-42, 47-51: the entry raises ValueError
EntryRaises(feature) ==
    \/ feature.kind = "other"
    \/ feature.kind = "list" /\ \E k \in 1..Len(feature.val) : feature.val[k].kind # "str"

\* the strings of the entry that get a row: all of them, or for a list those
\* before its first element that is not a string
EntryStrings(feature) ==
    IF feature.kind = "str" THEN <<feature.val>>
    ELSE IF feature.kind = "list"
    THEN LET bad == { k \in 1..Len(feature.val) : feature.val[k].kind # "str" }
             n == IF bad = {} THEN Len(feature.val)
                  ELSE (CHOOSE k \in bad : \A j \in bad : k <= j) - 1
         IN  [k \in 1..n |-> feature.val[k].val]
    ELSE <<>>

\* lines 36-37, 44-45: the rows appended for one top-level entry
EntryRows_PerSynonym(feature, fi, fti) ==
    LET strs == EntryStrings(feature)
    IN  [k \in 1..Len(strs) |->
            [feature_term_id |-> fti + k - 1, feature_id |-> fi + k - 1, feature |-> strs[k]]]

EntryRows(feature, fi, fti) ==
    LET strs == EntryStrings(feature)
    IN  [k \in 1..Len(strs) |->
            [feature_term_id |-> fti + k - 1, feature_id |-> fi, feature |-> strs[k]]]

\* the whole function, for an argument without malformed entries
RECURSIVE FormatRows(_, _, _)
FormatRows(fl, fi, fti) ==
    IF fl = <<>> THEN <<>>
    ELSE LET rows == EntryRows(Head(fl), fi, fti)
         IN  rows \o FormatRows(Tail(fl), fi + 1, fti + Len(rows))

format_feature_list(fl) == FormatRows(fl, 0, 0)

Synonyms == { Str("b"), Str("c"), Other }

SynonymLists == { <<>> } \cup { <<x>> : x \in Synonyms }
                    \cup { <<x, y>> : x \in Synonyms, y \in Synonyms }

FeatureEntries == { Str("a"), Str("b"), Other } \cup { List(l) : l \in SynonymLists }

RECURSIVE SeqsUpTo(_, _)
SeqsUpTo(S, n) ==
    IF n = 0 THEN { <<>> }
    ELSE LET shorter == SeqsUpTo(S, n - 1)
         IN  shorter \cup { Append(q, x) : q \in { r \in shorter : Len(r) = n - 1 }, x \in S }

FormatInit ==
    /\ fl_input \in SeqsUpTo(FeatureEntries, MaxFeatures)
    /\ feature_index = 0
    /\ feature_term_index = 0
    /\ formatted_feature_list = <<>>

FormatIdle ==
    /\ fl_input = <<>>
    /\ feature_index = 0
    /\ feature_term_index = 0
    /\ formatted_feature_list = <<>>

\* one iteration of the loop of line 33
FormatEntry ==
    /\ call = "format_feature_list"
    /\ pc = "loop"
    /\ feature_index < Len(fl_input)
    /\ LET feature == fl_input[feature_index + 1]
           rows == EntryRows(feature, feature_index, feature_term_index)
       IN  /\ formatted_feature_list' = formatted_feature_list \o rows
           /\ feature_term_index' = feature_term_index + Len(rows)
           /\ IF EntryRaises(feature)
              THEN pc' = "error" /\ UNCHANGED feature_index
              ELSE pc' = "loop" /\ feature_index' = feature_index + 1
    /\ UNCHANGED <<call, fl_input, readVars, buildVars>>

\* lines 55-57
FormatEnd ==
    /\ call = "format_feature_list"
    /\ pc = "loop"
    /\ feature_index = Len(fl_input)
    /\ pc' = "done"
    /\ UNCHANGED <<call, formatVars, readVars, buildVars>>

\* the rows of the result that carry feature_id f, in order
RowsWithId(f) ==
    LET HasId(r) == r.feature_id = f
    IN  SelectSeq(formatted_feature_list, HasId)

\* C2: feature_term_ids are 0,1,2,... in input order, one per string; the
\* strings of one nested list share a feature_id, strings of different
\* top-level entries never do, and a row's feature_id is the 0-based position
\* of its top-level entry; ["a", ["b","c"]] gives a:0/0, b:1/1, c:1/2.
C2_FeatureIds ==
    (call = "format_feature_list" /\ pc = "done")
        => /\ \A k \in 1..Len(formatted_feature_list) :
                /\ formatted_feature_list[k].feature_term_id = k - 1
                /\ formatted_feature_list[k].feature_id \in 0..(Len(fl_input) - 1)
           /\ \A p \in 1..Len(fl_input) :
                LET entry == fl_input[p]
                    rows == RowsWithId(p - 1)
                IN  IF entry.kind = "str"
                    THEN Len(rows) = 1 /\ rows[1].feature = entry.val
                    ELSE /\ Len(rows) = Len(entry.val)
                         /\ \A k \in 1..Len(rows) : rows[k].feature = entry.val[k].val
           /\ fl_input = <<Str("a"), List(<<Str("b"), Str("c")>>)>>
                => formatted_feature_list =
                     << [feature_term_id |-> 0, feature_id |-> 0, feature |-> "a"],
                        [feature_term_id |-> 1, feature_id |-> 1, feature |-> "b"],
                        [feature_term_id |-> 2, feature_id |-> 1, feature |-> "c"] >>

\* format_feature_list(["a", ["b","c"]]) has returned
C2_Witness ==
    /\ call = "format_feature_list"
    /\ pc = "done"
    /\ fl_input = <<Str("a"), List(<<Str("b"), Str("c")>>)>>
    /\ Len(formatted_feature_list) = 3

(***************************************************************************)
(* build_explicit_models.  The spaCy pipeline is outside the function: a   *)
(* section text arrives as the tokens nlp() gives for it, each with its    *)
(* lower_, lemma_, is_stop and is_punct attributes.                        *)
(***************************************************************************)
Token(lo, le, st, pu) == [lower_ |-> lo, lemma_ |-> le, is_stop |-> st, is_punct |-> pu]

TokScreens == Token("screens", "screen", FALSE, FALSE)

TokDisplay == Token("display", "display", FALSE, FALSE)

TokGood == Token("good", "good", FALSE, FALSE)

TokOurs == Token("ours", "-PRON-", FALSE, FALSE)

TokThe == Token("the", "the", TRUE, FALSE)

TokDot == Token(".", ".", FALSE, TRUE)

SectionTexts ==
    { <<>>,
      <<TokThe, TokDot>>,
      <<TokScreens>>,
      <<TokScreens, TokDisplay>>,
      <<TokGood, TokGood, TokScreens>>,
      <<TokDisplay, TokGood, TokDot>>,
      <<TokOurs, TokGood>>,
      <<TokThe, TokGood>> }

FeatureSets ==
    { format_feature_list(<<Str("screen"), Str("display")>>),
      format_feature_list(<<List(<<Str("screen"), Str("display")>>), Str("sound")>>),
      format_feature_list(<<Str("sound"), List(<<Str("good")>>)>>) }

\* Counter / defaultdict(int) lookup
Get(counter, k) == IF k \in DOMAIN counter THEN counter[k] ELSE 0

\* the elements of a sequence
Range(q) == { q[k] : k \in 1..Len(q) }

\* lines 203-206: the words kept from the parsed section
RECURSIVE SectionWords(_)
SectionWords(section) ==
    IF section = <<>> THEN <<>>
    ELSE LET word == Head(section)
         IN  (IF ~word.is_stop /\ ~word.is_punct
              THEN <<IF word.lemma_ # "-PRON-" THEN word.lemma_ ELSE word.lower_>>
              ELSE <<>>) \o SectionWords(Tail(section))

\* line 209: Counter(list)
CounterOf(words) ==
    [w \in Range(words) |-> Cardinality({ k \in 1..Len(words) : words[k] = w })]

\* Counter.update with the counts of another counter (line 215)
UpdateCounts(counter, counts) ==
    [w \in DOMAIN counter \cup DOMAIN counts |-> Get(counter, w) + Get(counts, w)]

\* Counter.update with a collection of distinct keys (lines 212, 244)
UpdateKeys(counter, keys) ==
    [w \in DOMAIN counter \cup keys |-> Get(counter, w) + (IF w \in keys THEN 1 ELSE 0)]

\* lines 224-241: the feature ids recorded for a section, in the order found
RECURSIVE FoundFeatures_NoSkip(_, _, _)
FoundFeatures_NoSkip(rows, words, found) ==
    IF rows = <<>> THEN <<>>
    ELSE LET row_f == Head(rows)
         IN  IF row_f.feature \in Range(words)
             THEN <<row_f.feature_id>> \o FoundFeatures_NoSkip(Tail(rows), words, found)
             ELSE FoundFeatures_NoSkip(Tail(rows), words, found)

RECURSIVE FoundFeatures(_, _, _)
FoundFeatures(rows, words, found) ==
    IF rows = <<>> THEN <<>>
    ELSE LET row_f == Head(rows)
         IN  IF row_f.feature \in Range(words) /\ row_f.feature_id \notin found
             THEN <<row_f.feature_id>>
                      \o FoundFeatures(Tail(rows), words, found \cup {row_f.feature_id})
             ELSE FoundFeatures(Tail(rows), words, found)

\* line 244, once for every feature id recorded for the section
RECURSIVE UpdateFeatureWords(_, _, _)
UpdateFeatureWords(fwc, ids, keys) ==
    IF ids = <<>> THEN fwc
    ELSE LET f == Head(ids)
             old == IF f \in DOMAIN fwc THEN fwc[f] ELSE <<>>
         IN  UpdateFeatureWords((f :> UpdateKeys(old, keys)) @@ fwc, Tail(ids), keys)

\* line 187
UniqueFeatureIds(fs) == { fs[k].feature_id : k \in 1..Len(fs) }

(***************************************************************************)
(* Arithmetic.  A float is modelled as a fixed-point number with FracBits  *)
(* binary digits after the point (the integer x stands for x / Scale), a   *)
(* quotient of two floats as the pair <<numerator, denominator>>.          *)
(***************************************************************************)
Scale == 2 ^ FracBits

\* the integer part of log2(n), n >= 1
IntLog2(n) == CHOOSE k \in 0..30 : 2 ^ k <= n /\ n < 2 ^ (k + 1)

\* the fractional digits of log2(x / Scale), Scale <= x < 2 * Scale
RECURSIVE FracLog2(_, _)
FracLog2(x, bit) ==
    IF bit > FracBits THEN 0
    ELSE LET y == (x * x) \div Scale
         IN  IF y >= 2 * Scale
             THEN Scale \div (2 ^ bit) + FracLog2(y \div 2, bit + 1)
             ELSE FracLog2(y, bit + 1)

\* math.log(n, 2) for an integer n >= 1
Log2(n) == IntLog2(n) * Scale + FracLog2((n * Scale) \div (2 ^ IntLog2(n)), 1)

RECURSIVE SumOver(_, _)
SumOver(f, keys) ==
    IF keys = {} THEN 0
    ELSE LET k == CHOOSE x \in keys : TRUE
         IN  f[k] + SumOver(f, keys \ {k})

\* line 256
VocabularySize_Distinct(cwc) == Cardinality(DOMAIN cwc)

VocabularySize(cwc) == SumOver(cwc, DOMAIN cwc)

\* line 262
ModelBackground(cwc) == [k \in DOMAIN cwc |-> <<cwc[k], VocabularySize(cwc)>>]

\* lines 283-285; log2(1 + n/d) = log2(d + n) - log2(d)
Tfidf_NoSmoothing(fwc, wsc, section_count, current_feature, word) ==
    (Log2(1 + Get(IF current_feature \in DOMAIN fwc THEN fwc[current_feature] ELSE <<>>, word))
        * (Log2(wsc[word] + section_count) - Log2(wsc[word]))) \div Scale

Tfidf(fwc, wsc, section_count, current_feature, word) ==
    (Log2(1 + Get(IF current_feature \in DOMAIN fwc THEN fwc[current_feature] ELSE <<>>, word))
        * (Log2(wsc[word] + section_count) - Log2(wsc[word]))) \div Scale
    + Scale

\* lines 274-283: reading feature_word_counter[current_feature][word] goes
\* through defaultdict(Counter) and inserts an empty Counter for every feature
\* id that has none yet (the loop body runs only when there is a word)
TouchFeatureWords(cwc, fwc, ids) ==
    IF DOMAIN cwc = {} THEN fwc
    ELSE [f \in DOMAIN fwc \cup ids |-> IF f \in DOMAIN fwc THEN fwc[f] ELSE <<>>]

\* lines 274-301
ModelFeature(cwc, fwc, wsc, section_count, ids) ==
    LET tfidf_feature ==
            [f \in ids |-> [w \in DOMAIN cwc |-> Tfidf(fwc, wsc, section_count, f, w)]]
        model_feature_norms ==
            [f \in (IF DOMAIN cwc = {} THEN {} ELSE ids) |->
                SumOver(tfidf_feature[f], DOMAIN cwc)]
    IN  [f \in DOMAIN model_feature_norms |->
            [w \in DOMAIN cwc |-> <<tfidf_feature[f][w], model_feature_norms[f]>>]]

BuildInit ==
    /\ text_len \in 0..MaxSections
    /\ feature_set \in FeatureSets
    /\ text_set = <<>>
    /\ section_word_list = <<>>
    /\ section_word_counts = <<>>
    /\ collection_word_counts = <<>>
    /\ word_section_counter = <<>>
    /\ feature_word_counter = <<>>
    /\ explicit_section_mapping = <<>>
    /\ model_background = <<>>
    /\ model_feature = <<>>

BuildIdle ==
    /\ text_len = 0
    /\ feature_set = <<>>
    /\ text_set = <<>>
    /\ section_word_list = <<>>
    /\ section_word_counts = <<>>
    /\ collection_word_counts = <<>>
    /\ word_section_counter = <<>>
    /\ feature_word_counter = <<>>
    /\ explicit_section_mapping = <<>>
    /\ model_background = <<>>
    /\ model_feature = <<>>

\* one iteration of the loop of line 193
ProcessSection ==
    /\ call = "build_explicit_models"
    /\ pc = "loop"
    /\ Len(text_set) < text_len
    /\ \E section \in SectionTexts :
         LET row == [section_id |-> Len(text_set), section_text |-> section]
             current_section_words == SectionWords(section)
             current_section_word_counts == CounterOf(current_section_words)
             ids == FoundFeatures(feature_set, current_section_words, {})
         IN  /\ text_set' = Append(text_set, row)
             /\ word_section_counter' =
                    UpdateKeys(word_section_counter, DOMAIN current_section_word_counts)
             /\ collection_word_counts' =
                    UpdateCounts(collection_word_counts, current_section_word_counts)
             /\ section_word_counts' =
                    (row.section_id :> current_section_word_counts) @@ section_word_counts
             /\ section_word_list' =
                    (row.section_id :> current_section_words) @@ section_word_list
             /\ explicit_section_mapping' = explicit_section_mapping \o
                    [k \in 1..Len(ids) |->
                        [section_id |-> row.section_id, feature_id |-> ids[k]]]
             /\ feature_word_counter' =
                    UpdateFeatureWords(feature_word_counter, ids,
                                       DOMAIN current_section_word_counts)
    /\ pc' = "loop"
    /\ UNCHANGED <<call, formatVars, readVars, text_len, feature_set,
                   model_background, model_feature>>

\* lines 256-305, after the last row
ComputeModels ==
    /\ call = "build_explicit_models"
    /\ pc = "loop"
    /\ Len(text_set) = text_len
    /\ model_background' = ModelBackground(collection_word_counts)
    /\ model_feature' = ModelFeature(collection_word_counts, feature_word_counter,
                                     word_section_counter,
                                     Cardinality(DOMAIN section_word_list),
                                     UniqueFeatureIds(feature_set))
    /\ feature_word_counter' = TouchFeatureWords(collection_word_counts,
                                                 feature_word_counter,
                                                 UniqueFeatureIds(feature_set))
    /\ pc' = "done"
    /\ UNCHANGED <<call, formatVars, readVars, text_len, text_set, feature_set,
                   section_word_list, section_word_counts, collection_word_counts,
                   word_section_counter, explicit_section_mapping>>

(***************************************************************************)
(* Properties of build_explicit_models.  Probabilities are compared as     *)
(* exact fractions.                                                        *)
(***************************************************************************)
RECURSIVE GCD(_, _)
GCD(a, b) == IF b = 0 THEN a ELSE GCD(b, a % b)

\* the sum of two fractions with positive denominators, in lowest terms
AddFrac(p, q) ==
    LET n == p[1] * q[2] + q[1] * p[2]
        d == p[2] * q[2]
        g == GCD(n, d)
    IN  IF g = 0 THEN <<n, d>> ELSE <<n \div g, d \div g>>

RECURSIVE SumFrac(_, _)
SumFrac(m, keys) ==
    IF keys = {} THEN <<0, 1>>
    ELSE LET k == CHOOSE x \in keys : TRUE
         IN  AddFrac(m[k], SumFrac(m, keys \ {k}))

\* the probabilities of the distribution m are well defined and sum to 1
SumsToOne(m) ==
    /\ \A k \in DOMAIN m : m[k][2] > 0
    /\ SumFrac(m, DOMAIN m) = <<1, 1>>

\* the words of the rows iterated so far, as the claim's "section contains w"
WordsOfRow(i) == Range(SectionWords(text_set[i].section_text))

Vocabulary == UNION { WordsOfRow(i) : i \in 1..Len(text_set) }

\* no term of feature id f occurs in any section
NeverCoOccurs(f) ==
    \A i \in 1..Len(text_set) : \A k \in 1..Len(feature_set) :
        feature_set[k].feature_id = f => feature_set[k].feature \notin WordsOfRow(i)

BuildDone == call = "build_explicit_models" /\ pc = "done"

\* C7 (as stated): for every text_set and feature_set, model_background sums
\* to 1 and every feature_id of feature_set has an entry of model_feature
\* that sums to 1.
C7_AlwaysSumToOne ==
    BuildDone
        => /\ SumsToOne(model_background)
           /\ \A f \in UniqueFeatureIds(feature_set) :
                f \in DOMAIN model_feature /\ SumsToOne(model_feature[f])

\* C7 (amended): when at least one section holds a word that is neither a
\* stop word nor punctuation, model_background sums to 1 and every feature_id
\* has an entry of model_feature over the vocabulary that sums to 1; when no
\* section holds such a word, both models are returned empty.
C7_SumToOneIfVocabulary ==
    BuildDone
        => IF Vocabulary # {}
           THEN /\ DOMAIN model_background = Vocabulary
                /\ SumsToOne(model_background)
                /\ \A f \in UniqueFeatureIds(feature_set) :
                     /\ f \in DOMAIN model_feature
                     /\ DOMAIN model_feature[f] = Vocabulary
                     /\ SumsToOne(model_feature[f])
           ELSE model_background = <<>> /\ model_feature = <<>>

\* the models were built from a corpus in which a word occurs twice and a
\* feature was found in a section
C7_Witness ==
    /\ BuildDone
    /\ \E w \in DOMAIN collection_word_counts : collection_word_counts[w] >= 2
    /\ Cardinality(Vocabulary) >= 2
    /\ explicit_section_mapping # <<>>

\* C8 (as stated): a feature_id none of whose terms occurs in any section
\* gets the BackgroundModel as its topic model.
C8_FallsBackToBackground ==
    BuildDone
        => \A f \in UniqueFeatureIds(feature_set) :
             NeverCoOccurs(f)
                 => \A w \in Vocabulary :
                      /\ f \in DOMAIN model_feature
                      /\ model_feature[f][w][1] * model_background[w][2]
                             = model_background[w][1] * model_feature[f][w][2]

\* C8 (amended): for such a feature_id the build does not fail and the topic
\* model is the uniform distribution over the vocabulary: every word has
\* probability 1 / (number of distinct words).
C8_UniformTopicModel ==
    BuildDone
        => \A f \in UniqueFeatureIds(feature_set) :
             NeverCoOccurs(f)
                 => \A w \in Vocabulary :
                      /\ f \in DOMAIN model_feature
                      /\ model_feature[f][w][2] > 0
                      /\ model_feature[f][w][1] * Cardinality(Vocabulary)
                             = model_feature[f][w][2]

\* a feature that occurs nowhere, in a corpus whose words differ in frequency
C8_Witness ==
    /\ BuildDone
    /\ \E f \in UniqueFeatureIds(feature_set) : NeverCoOccurs(f)
    /\ \E v, w \in Vocabulary : collection_word_counts[v] # collection_word_counts[w]

\* C10: per section and feature_id at most one record is added to the
\* mapping and the section's distinct words are counted at most once for
\* the feature, so feature_word_counter[f][w] <= word_section_counter[w].
C10_OncePerSection ==
    /\ \A j, k \in 1..Len(explicit_section_mapping) :
         explicit_section_mapping[j] = explicit_section_mapping[k] => j = k
    /\ \A f \in DOMAIN feature_word_counter : \A w \in DOMAIN feature_word_counter[f] :
         /\ feature_word_counter[f][w] <= Get(word_section_counter, w)
         /\ feature_word_counter[f][w] <=
                Cardinality({ i \in 1..Len(text_set) :
                    /\ w \in WordsOfRow(i)
                    /\ \E k \in 1..Len(feature_set) :
                         /\ feature_set[k].feature_id = f
                         /\ feature_set[k].feature \in WordsOfRow(i) })

\* a section holding two synonym terms of one feature_id has been processed
C10_Witness ==
    /\ call = "build_explicit_models"
    /\ \E i \in 1..Len(text_set) : \E j, k \in 1..Len(feature_set) :
         /\ j # k
         /\ feature_set[j].feature_id = feature_set[k].feature_id
         /\ feature_set[j].feature \in WordsOfRow(i)
         /\ feature_set[k].feature \in WordsOfRow(i)
         /\ \E r \in 1..Len(explicit_section_mapping) :
              explicit_section_mapping[r] =
                  [section_id |-> text_set[i].section_id,
                   feature_id |-> feature_set[j].feature_id]

Init ==
    \/ /\ call = "format_feature_list"
       /\ pc = "loop"
       /\ FormatInit
       /\ ReadIdle
       /\ BuildIdle
    \/ /\ call = "read_annotated_data"
       /\ pc = "loop"
       /\ FormatIdle
       /\ ReadInit
       /\ BuildIdle
    \/ /\ call = "build_explicit_models"
       /\ pc = "loop"
       /\ FormatIdle
       /\ ReadIdle
       /\ BuildInit

Next ==
    \/ FormatEntry
    \/ FormatEnd
    \/ ReadLine
    \/ ReadEnd
    \/ ProcessSection
    \/ ComputeModels

Spec == Init /\ [][Next]_vars

====
